---- MODULE Spec2Model ----
(***************************************************************************)
(* The bounded subprocess launcher of Material/Scripts:                    *)
(* paralledExperiments.py and its single-run twin oneExperiment.py, which  *)
(* is the same code with other constants, one output directory, a shorter  *)
(* poll interval and its children's output not discarded.  `script` says   *)
(* which of the two runs; line numbers are those of                        *)
(* paralledExperiments.py unless oneExperiment.py is named.                *)
(*                                                                         *)
(* The script builds the job queue cmds, then runs the driving loop        *)
(*     CheckRunning(); while Processes: sleep(60); CheckRunning()          *)
(* where CheckRunning polls every handle of Processes, deletes the exited  *)
(* ones and, while a slot is free and a job is left, sleeps one second     *)
(* and calls StartNew.  The launcher is one thread: pc is its position.    *)
(* The child processes and the wall clock are the environment: a child     *)
(* exits at any moment with any exit code, a sleep lasts at least as long  *)
(* as asked.  Popen is taken to succeed.  The wall clock is taken to be    *)
(* steady (no step backwards), and is followed up to a horizon, where it   *)
(* stands still.                                                           *)
(*                                                                         *)
(* Strings are sequences of tokens (characters where the code looks inside *)
(* the string, whole words elsewhere).  Python's None is the empty tuple   *)
(* and an exit code c the 1-tuple <<c>>, so the two never compare equal.   *)
(***************************************************************************)
EXTENDS Integers, Sequences, FiniteSets, TLC

\* ------------------------------------------------------------- bounds
\* The configurations and environments explored.
MaxParalleledNum == 2
MaxIteration == 2
MaxFileNames == 2
\* The longest job queue: configurations with more jobs are left out.
MaxQueue == 4
\* Seconds of wall clock followed after the launcher starts, in the
\* specifications that do not study the seed (the clock then stands still).
ShortHorizon == 2

\* -------------------------------------------------- program constants
PaceSeconds == 1
PollSeconds == 60
SeedTzHours == 8
\* oneExperiment.py, lines 14, 15 and 64.
Iteration_one == 2
ParalleledNum_one == 1
PollSeconds_one == 1

working_directory == <<"D:\\codes\\RAWSim-O\\RAWSimO.CLI">>
experimentFolder == <<"D:\\codes\\RAWSim-OData\\result0703">>
experimentFolder_one == <<"D:\\codes\\RAWSim-OData\\debug">>
InstanceFolder == <<"D:\\codes\\RAWSim-O\\Material\\Instances\\SquareLayouts">>
SettingFolder == <<"D:\\codes\\RAWSim-O\\Material\\configFiles">>
controllerFolder == <<"D:\\codes\\RAWSim-O\\Material\\configFiles">>

None == <<>>
ExitCodes == {0, 1}

\* ------------------------------------------------------------ helpers
Min(a, b) == IF a < b THEN a ELSE b

Last(s) == s[Len(s)]

Front(s) == SubSeq(s, 1, Len(s) - 1)

\* del s[k], k a 1-based position of s.
DelAt(s, k) == SubSeq(s, 1, k - 1) \o SubSeq(s, k + 1, Len(s))

\* ------------------------------------------------- the triples swept
\* Instance names as the loops of lines 20-25 build them:
\* f'{instance}v{version}r{botNum}'.
InstanceName(instance, version, botNum) == instance \o <<"v">> \o version \o <<"r">> \o botNum

Sv5r10 == InstanceName(<<"S">>, <<"5">>, <<"1", "0">>)

Sv5r20 == InstanceName(<<"S">>, <<"5">>, <<"2", "0">>)

\* oneExperiment.py, line 18.
FileNames_one == << << <<"S", "v", "1", "r", "6", "0">>, <<"JOSi100o500q">>, <<"SAIn">> >> >>

\* (instance, setting, controller); two controllers on one instance, and a
\* second instance.  A list over these may repeat a triple, as the list of
\* line 24 does.
Triples == { <<Sv5r10, <<"JOSi1000o500">>, <<"HADODn">> >>,
             <<Sv5r20, <<"JOSi1000o500">>, <<"SEQUn">> >> }

RECURSIVE SeqsUpTo(_, _)
SeqsUpTo(S, n) ==
    IF n = 0 THEN { <<>> }
    ELSE LET shorter == SeqsUpTo(S, n - 1)
         IN  shorter \cup { Append(s, x) : s \in { t \in shorter : Len(t) = n - 1 }, x \in S }

\* ------------------------------------------------ queue construction
\* "{}\{}.xlayo".format(folder, name)
FormatPath(folder, name, ext) == folder \o <<"\\">> \o name \o <<ext>>

\* The 1-based position of the last occurrence of ch in s, 0 when absent.
RECURSIVE RFind(_, _)
RFind(s, ch) ==
    IF Len(s) = 0 THEN 0
    ELSE IF Last(s) = ch THEN Len(s)
    ELSE RFind(Front(s), ch)

\* s.rsplit(ch, 1)[0]: what stands before the last ch, all of s without one.
RSplitHead(s, ch) ==
    IF RFind(s, ch) = 0 THEN s ELSE SubSeq(s, 1, RFind(s, ch) - 1)

\* Line 45; oneExperiment.py, line 29.
OutputDir(which, instance) ==
    IF which = "oneExperiment" THEN experimentFolder_one
    ELSE experimentFolder \o <<"\\">> \o RSplitHead(instance, "r")

\* The argument list of lines 42-46 for one triple.
Job(which, triple) ==
    LET instance == triple[1]
        setting == triple[2]
        controller == triple[3]
        instPath == FormatPath(InstanceFolder, instance, ".xlayo")
        settPath == FormatPath(SettingFolder, setting, ".xsett")
        contPath == FormatPath(controllerFolder, controller, ".xconf")
        outputDir == OutputDir(which, instance)
    IN  << <<"dotnet">>, <<"run">>, instPath, settPath, contPath, outputDir >>

\* --------------------------------------------------- time and seed
SecondsPerDay == 24 * 60 * 60

\* Years are counted from 2024; every fourth is a leap year (1901..2099).
IsLeap(y) == y % 4 = 0

DaysInYear(y) == IF IsLeap(y) THEN 366 ELSE 365

MonthLengths(y) ==
    <<31, IF IsLeap(y) THEN 29 ELSE 28, 31, 30, 31, 30, 31, 31, 30, 31, 30, 31>>

\* <<year, day of the year (from 0)>> of day number `days`, counting from year y.
RECURSIVE YearAndDay(_, _)
YearAndDay(days, y) ==
    IF days < DaysInYear(y) THEN <<y, days>>
    ELSE YearAndDay(days - DaysInYear(y), y + 1)

\* <<month, day of the month>> (both from 1) of day `d` (from 0) of year y.
RECURSIVE MonthAndDay(_, _, _)
MonthAndDay(d, y, m) ==
    IF d < MonthLengths(y)[m] THEN <<m, d + 1>>
    ELSE MonthAndDay(d - MonthLengths(y)[m], y, m + 1)

\* The calendar fields of a count of seconds since 2024-01-01 00:00:00.
Fields(t) ==
    LET yd == YearAndDay(t \div SecondsPerDay, 0)
        md == MonthAndDay(yd[2], yd[1], 1)
        s == t % SecondsPerDay
    IN  [year |-> yd[1], month |-> md[1], day |-> md[2],
         hour |-> s \div 3600, minute |-> (s % 3600) \div 60, second |-> s % 60]

\* The seconds since 2024-01-01 00:00:00 of a calendar reading.
RECURSIVE DaysBeforeYear(_)
DaysBeforeYear(y) == IF y = 0 THEN 0 ELSE DaysBeforeYear(y - 1) + DaysInYear(y - 1)

RECURSIVE DaysBeforeMonth(_, _)
DaysBeforeMonth(y, m) == IF m = 1 THEN 0 ELSE DaysBeforeMonth(y, m - 1) + MonthLengths(y)[m - 1]

Instant(y, mo, d, h, mi, s) ==
    (DaysBeforeYear(y) + DaysBeforeMonth(y, mo) + (d - 1)) * SecondsPerDay
        + h * 3600 + mi * 60 + s

DigitChars == <<"0", "1", "2", "3", "4", "5", "6", "7", "8", "9">>

\* %m, %d, %H, %M, %S: two digits, zero-padded.
TwoDigits(n) == << DigitChars[(n \div 10) + 1], DigitChars[(n % 10) + 1] >>

\* datetime.now(): the host's local wall clock, naive (no tzinfo).  utc is the
\* instant, tz the host's UTC offset in hours.
DatetimeNow(utc, tz) == [local |-> utc + tz * 3600, tzinfo |-> None]

\* dt.replace(tzinfo=...): the same fields with the zone attached.
ReplaceTzinfo(dt, hours) == [dt EXCEPT !.tzinfo = <<hours>>]

\* dt.strftime("%m%d%H%M%S"): the fields of dt as they stand.
Strftime(dt) ==
    LET f == Fields(dt.local)
    IN  TwoDigits(f.month) \o TwoDigits(f.day) \o TwoDigits(f.hour)
            \o TwoDigits(f.minute) \o TwoDigits(f.second)

\* Line 56.
SeedAt(utc, tz) == Strftime(ReplaceTzinfo(DatetimeNow(utc, tz), SeedTzHours))

\* -------------------------------------------------------------- state
VARIABLES
    script,         \* which of the two scripts runs
    ParalleledNum,  \* line 16
    Iteration,      \* line 15
    FileNames,      \* lines 18-25: the list of triples
    cmds,           \* line 39: the job queue, a list of argument lists
    i,              \* line 40: the iteration being enumerated
    fileNo,         \* line 41: how many triples of FileNames this iteration has taken
    NextURLNo,      \* line 48: the dispatch cursor
    Processes,      \* line 49: the handles of the active processes, oldest first
    p,              \* line 69: the loop index of CheckRunning, negative
    proc,           \* line 59: StartNew's local handle, 0 outside StartNew
    pc,             \* the launcher's position
    children,       \* the referenced Popen handles: handle |-> what poll() returns
    clock,          \* the instant, in seconds since 2024-01-01 00:00:00 UTC
    env,            \* the host: [tz, horizon, pace, nap, hung]
    spawned,        \* history: one record per Popen call
    reaped,         \* history: the handles deleted from Processes, with what poll() gave
    origin,         \* history: for each job of cmds, the loop indices that built it
    polls,          \* history: the handles polled by the current CheckRunning call
    entries,        \* history: Processes as the current CheckRunning call found it
    results,        \* history: what each poll of the current call returned
    stdout          \* history: the progress messages printed

vars == <<script, ParalleledNum, Iteration, FileNames, cmds, i, fileNo, NextURLNo, Processes,
          p, proc, pc, children, clock, env, spawned, reaped, origin, polls, entries,
          results, stdout>>

config == <<script, ParalleledNum, Iteration, FileNames, env>>

history == <<spawned, reaped, polls, entries, results, stdout>>

\* env.tz: the host's UTC offset in hours.  env.horizon: the instant up to
\* which the clock is followed.  env.pace, env.nap: how long the sleeps of
\* lines 74 and 80 may last on this host.  env.hung: the handles of the
\* children that never exit.

\* The state as the module is loaded: the configuration is set, nothing is
\* built yet.  Ns, Is, FNs: the configurations; Envs: the hosts; Starts: the
\* instants at which the script starts.
InitWith(which, Ns, Is, FNs, Envs, Starts) ==
    /\ script = which
    /\ ParalleledNum \in Ns
    /\ Iteration \in Is
    /\ FileNames \in FNs
    /\ Iteration * Len(FileNames) <= MaxQueue
    /\ clock \in Starts
    /\ \E e \in Envs : env = [e EXCEPT !.horizon = clock + e.horizon]
    /\ cmds = <<>>
    /\ i = 0
    /\ fileNo = 0
    /\ NextURLNo = 0
    /\ Processes = <<>>
    /\ p = 0
    /\ proc = 0
    /\ pc = "build"
    /\ children = <<>>
    /\ spawned = <<>>
    /\ reaped = <<>>
    /\ origin = <<>>
    /\ polls = <<>>
    /\ entries = <<>>
    /\ results = <<>>
    /\ stdout = <<>>

\* ------------------------------------------------ lines 39-46: cmds
\* The loops of lines 40-41 nested the other way: the triples outside, the
\* iterations inside.
Build_append_swapped ==
    /\ pc = "build"
    /\ i < Iteration
    /\ fileNo < Len(FileNames)
    /\ cmds' = Append(cmds, Job(script, FileNames[(Len(cmds) \div Iteration) + 1]))
    /\ origin' = Append(origin, [iteration |-> Len(cmds) % Iteration,
                                 position |-> Len(cmds) \div Iteration])
    /\ fileNo' = fileNo + 1
    /\ UNCHANGED <<config, i, NextURLNo, Processes, p, proc, pc, children, clock, history>>

\* The body of the inner loop: one triple of this iteration becomes a job.
Build_append ==
    /\ pc = "build"
    /\ i < Iteration
    /\ fileNo < Len(FileNames)
    /\ cmds' = Append(cmds, Job(script, FileNames[fileNo + 1]))
    /\ origin' = Append(origin, [iteration |-> i, position |-> fileNo])
    /\ fileNo' = fileNo + 1
    /\ UNCHANGED <<config, i, NextURLNo, Processes, p, proc, pc, children, clock, history>>

\* The inner loop is exhausted: the next iteration starts over the list.
Build_nextIteration ==
    /\ pc = "build"
    /\ i < Iteration
    /\ fileNo >= Len(FileNames)
    /\ i' = i + 1
    /\ fileNo' = 0
    /\ UNCHANGED <<config, cmds, origin, NextURLNo, Processes, p, proc, pc, children, clock, history>>

\* range(Iteration) is exhausted; lines 48-49 and the entry of __main__.
Build_done ==
    /\ pc = "build"
    /\ i >= Iteration
    /\ NextURLNo' = 0
    /\ Processes' = <<>>
    /\ pc' = "call"
    /\ UNCHANGED <<config, cmds, origin, i, fileNo, p, proc, children, clock, history>>

\* ------------------------------------------------------ environment
\* time.sleep(d): some time the host allows passes, at least d seconds.
Sleep(d, lengths) ==
    \E e \in lengths : e >= d /\ clock' = Min(clock + e, env.horizon)

\* A running child exits with code c.
ChildExit(h, c) ==
    /\ h \in DOMAIN children
    /\ children[h] = None
    /\ h \notin env.hung
    /\ children' = [children EXCEPT ![h] = <<c>>]
    /\ UNCHANGED <<config, cmds, origin, i, fileNo, NextURLNo, Processes, p, proc, pc, clock, history>>

\* ------------------------------------------- lines 51-62: StartNew
\* Lines 56-58 with one list shared by the jobs still queued: the seed lands
\* on all of them.
StartNew_seed_shared ==
    /\ pc = "seed"
    /\ NextURLNo < Len(cmds)
    /\ cmds' = [k \in DOMAIN cmds |->
                  IF k > NextURLNo THEN Append(cmds[k], SeedAt(clock, env.tz)) ELSE cmds[k]]
    /\ pc' = "popen"
    /\ UNCHANGED <<config, origin, i, fileNo, NextURLNo, Processes, p, proc, children, clock,
                   history>>

\* Lines 56-58: the seed is the clock reading, appended to the job's list.
StartNew_seed ==
    /\ pc = "seed"
    /\ IF NextURLNo < Len(cmds)
       THEN /\ cmds' = [cmds EXCEPT ![NextURLNo + 1] = Append(@, SeedAt(clock, env.tz))]
            /\ pc' = "popen"
       ELSE /\ pc' = "IndexError"
            /\ UNCHANGED cmds
    /\ UNCHANGED <<config, origin, i, fileNo, NextURLNo, Processes, p, proc, children, clock,
                   history>>

\* Line 60 naming the triple as if the queue repeated each triple Iteration
\* times in a row: FileNames[NextURLNo // Iteration].
Progress_tripleMajor(cursor) ==
    IF script = "oneExperiment"
    THEN [triple |-> FileNames[(cursor \div Iteration) + 1]]
    ELSE [no |-> cursor + 1, total |-> Len(cmds),
          triple |-> FileNames[(cursor \div Iteration) + 1]]

\* The message of line 60; of line 44 of oneExperiment.py, which does not
\* number it.
Progress(cursor) ==
    IF script = "oneExperiment"
    THEN [triple |-> FileNames[(cursor % Len(FileNames)) + 1]]
    ELSE [no |-> cursor + 1, total |-> Len(cmds),
          triple |-> FileNames[(cursor % Len(FileNames)) + 1]]

\* Line 59: stdout=DEVNULL; oneExperiment.py, line 43: the child inherits it.
ChildStdout == IF script = "oneExperiment" THEN "inherited" ELSE "DEVNULL"

\* Lines 59-60 taking the jobs from the end of the queue.
StartNew_popen_fromEnd ==
    /\ pc = "popen"
    /\ proc' = Len(spawned) + 1
    /\ children' = [h \in DOMAIN children \cup {proc'} |->
                       IF h = proc' THEN None ELSE children[h]]
    /\ spawned' = Append(spawned, [job |-> Len(cmds) - 1 - NextURLNo,
                                   args |-> cmds[Len(cmds) - NextURLNo],
                                   cwd |-> working_directory, stdout |-> ChildStdout,
                                   at |-> clock])
    /\ stdout' = Append(stdout, Progress(NextURLNo))
    /\ pc' = "advance"
    /\ UNCHANGED <<config, cmds, origin, i, fileNo, NextURLNo, Processes, p, clock, reaped, polls,
                   entries, results>>

\* Lines 59-60: the process is spawned with the job's list, and announced.
StartNew_popen ==
    /\ pc = "popen"
    /\ proc' = Len(spawned) + 1
    /\ children' = [h \in DOMAIN children \cup {proc'} |->
                       IF h = proc' THEN None ELSE children[h]]
    /\ spawned' = Append(spawned, [job |-> NextURLNo, args |-> cmds[NextURLNo + 1],
                                   cwd |-> working_directory, stdout |-> ChildStdout,
                                   at |-> clock])
    /\ stdout' = Append(stdout, Progress(NextURLNo))
    /\ pc' = "advance"
    /\ UNCHANGED <<config, cmds, origin, i, fileNo, NextURLNo, Processes, p, clock, reaped, polls,
                   entries, results>>

\* Line 61.
StartNew_advance ==
    /\ pc = "advance"
    /\ NextURLNo' = NextURLNo + 1
    /\ pc' = "record"
    /\ UNCHANGED <<config, cmds, origin, i, fileNo, Processes, p, proc, children, clock, history>>

\* Line 62 as an assignment, Processes = [proc], for the append.
StartNew_record_replace ==
    /\ pc = "record"
    /\ Processes' = <<proc>>
    /\ proc' = 0
    /\ pc' = "refill"
    /\ UNCHANGED <<config, cmds, origin, i, fileNo, NextURLNo, p, children, clock, history>>

\* Line 62, with line 73 an "if": one StartNew for each CheckRunning call.
StartNew_record_once ==
    /\ pc = "record"
    /\ Processes' = Append(Processes, proc)
    /\ proc' = 0
    /\ pc' = "loop"
    /\ UNCHANGED <<config, cmds, origin, i, fileNo, NextURLNo, p, children, clock, history>>

\* Line 62, and the return to the loop of line 73.
StartNew_record ==
    /\ pc = "record"
    /\ Processes' = Append(Processes, proc)
    /\ proc' = 0
    /\ pc' = "refill"
    /\ UNCHANGED <<config, cmds, origin, i, fileNo, NextURLNo, p, children, clock, history>>

\* --------------------------------------- lines 64-75: CheckRunning
\* The call: range(-len(Processes), 0) is evaluated once, on entry.
CheckRunning_call ==
    /\ pc = "call"
    /\ p' = -Len(Processes)
    /\ polls' = <<>>
    /\ entries' = Processes
    /\ results' = <<>>
    /\ pc' = IF p' < 0 THEN "reap" ELSE "refill"
    /\ UNCHANGED <<config, cmds, origin, i, fileNo, NextURLNo, Processes, proc, children, clock,
                   spawned, reaped, stdout>>

\* Mutant: the loop runs over range(len(Processes)), indices counted from
\* the front of the list as it was when the loop was set up.
Position_fromFront(k) ==
    IF Len(entries) + k + 1 <= Len(Processes) THEN Len(entries) + k + 1 ELSE 0

\* Processes[k] for a negative k: the position counted from the end of the
\* list as it is now; 0 when out of range.
Position(k) == IF Len(Processes) + k >= 0 THEN Len(Processes) + k + 1 ELSE 0

\* proc.poll(): the exit code, None while the child runs.
Poll(h) == children[h]

\* "poll is not None" for "poll() is not None": true of every handle.
Exited_always(returncode) == TRUE

\* "poll() == 0" for "poll() is not None": only a success frees the slot.
Exited_onSuccess(returncode) == returncode = <<0>>

\* "poll() is not None".
Exited(returncode) == returncode # None

\* Lines 70-71 deleting from a copy of the list: the handle stays.
ReapWith_onCopy(returncode) ==
    LET k == Position(p)
        h == Processes[k]
    IN  /\ polls' = Append(polls, h)
        /\ results' = Append(results, returncode)
        /\ IF Exited(returncode)
           THEN /\ reaped' = Append(reaped, [handle |-> h, returncode |-> returncode])
                /\ UNCHANGED <<Processes, children>>
           ELSE UNCHANGED <<Processes, children, reaped>>
        /\ p' = p + 1
        /\ pc' = IF p' < 0 THEN "reap" ELSE "refill"

\* Lines 70-71 for the index p, with `returncode` what the poll returned.
ReapWith(returncode) ==
    LET k == Position(p)
        h == Processes[k]
    IN  /\ polls' = Append(polls, h)
        /\ results' = Append(results, returncode)
        /\ IF Exited(returncode)
           THEN /\ Processes' = DelAt(Processes, k)
                /\ children' = [x \in DOMAIN children \ {h} |-> children[x]]
                /\ reaped' = Append(reaped, [handle |-> h, returncode |-> returncode])
           ELSE UNCHANGED <<Processes, children, reaped>>
        /\ p' = p + 1
        /\ pc' = IF p' < 0 THEN "reap" ELSE "refill"

\* Lines 69-71 with a retry: a child that failed sends the cursor back to
\* its job.
CheckRunning_poll_retry ==
    /\ pc = "reap"
    /\ p < 0
    /\ Position(p) # 0
    /\ ReapWith(Poll(Processes[Position(p)]))
    /\ NextURLNo' = IF Poll(Processes[Position(p)]) \notin {None, <<0>>}
                    THEN spawned[Processes[Position(p)]].job
                    ELSE NextURLNo
    /\ UNCHANGED <<config, cmds, origin, i, fileNo, proc, clock, spawned, entries, stdout>>

\* One turn of the loop of lines 69-71.
CheckRunning_poll ==
    /\ pc = "reap"
    /\ p < 0
    /\ IF Position(p) = 0
       THEN /\ pc' = "IndexError"
            /\ UNCHANGED <<Processes, children, reaped, polls, results, p>>
       ELSE ReapWith(Poll(Processes[Position(p)]))
    /\ UNCHANGED <<config, cmds, origin, i, fileNo, NextURLNo, proc, clock, spawned, entries,
                   stdout>>

\* Line 73 without "len(Processes) < ParalleledNum": every job at once.
SpareSlot_ignoresLimit == NextURLNo < Len(cmds)

\* Line 73 counting only the processes that still run: a fill that polls.
SpareSlot_running ==
    /\ Cardinality({ k \in DOMAIN Processes : children[Processes[k]] = None }) < ParalleledNum
    /\ NextURLNo < Len(cmds)

\* Line 73 with "<=" for "<": one process too many.
SpareSlot_inclusive == Len(Processes) <= ParalleledNum /\ NextURLNo < Len(cmds)

\* The condition of line 73.
SpareSlot == Len(Processes) < ParalleledNum /\ NextURLNo < Len(cmds)

\* Line 73 without "NextURLNo < len(cmds)".
CheckRunning_refill_unguarded ==
    /\ pc = "refill"
    /\ pc' = IF Len(Processes) < ParalleledNum THEN "pace" ELSE "loop"
    /\ UNCHANGED <<config, cmds, origin, i, fileNo, NextURLNo, Processes, p, proc, children, clock,
                   history>>

\* Line 73: another turn, or the return to the driving loop.
CheckRunning_refill ==
    /\ pc = "refill"
    /\ pc' = IF SpareSlot THEN "pace" ELSE "loop"
    /\ UNCHANGED <<config, cmds, origin, i, fileNo, NextURLNo, Processes, p, proc, children, clock,
                   history>>

\* Line 75 without the sleep of line 74.
CheckRunning_pace_noSleep ==
    /\ pc = "pace"
    /\ pc' = "seed"
    /\ UNCHANGED <<config, cmds, origin, i, fileNo, NextURLNo, Processes, p, proc, children, clock,
                   history>>

\* Line 74, then the call of line 75.
CheckRunning_pace ==
    /\ pc = "pace"
    /\ Sleep(PaceSeconds, env.pace)
    /\ pc' = "seed"
    /\ UNCHANGED <<config, cmds, origin, i, fileNo, NextURLNo, Processes, p, proc, children, history>>

\* ------------------------------------- lines 77-81: the driving loop
\* Line 79 with "> 1" for "> 0": the loop gives up on the last process.
Loop_test_early ==
    /\ pc = "loop"
    /\ pc' = IF Len(Processes) > 1 THEN "nap" ELSE "done"
    /\ UNCHANGED <<config, cmds, origin, i, fileNo, NextURLNo, Processes, p, proc, children, clock,
                   history>>

\* Line 79.
Loop_test ==
    /\ pc = "loop"
    /\ pc' = IF Len(Processes) > 0 THEN "nap" ELSE "done"
    /\ UNCHANGED <<config, cmds, origin, i, fileNo, NextURLNo, Processes, p, proc, children, clock,
                   history>>

\* Line 80; oneExperiment.py, line 64.
PollInterval == IF script = "oneExperiment" THEN PollSeconds_one ELSE PollSeconds

\* Line 80, then the call of line 81.
Loop_sleep ==
    /\ pc = "nap"
    /\ Sleep(PollInterval, env.nap)
    /\ pc' = "call"
    /\ UNCHANGED <<config, cmds, origin, i, fileNo, NextURLNo, Processes, p, proc, children, history>>

\* ------------------------------------------------- specifications
Build == Build_append \/ Build_nextIteration \/ Build_done

StartNew == StartNew_seed \/ StartNew_popen \/ StartNew_advance \/ StartNew_record

CheckRunning == CheckRunning_call \/ CheckRunning_poll \/ CheckRunning_refill \/ CheckRunning_pace

Launcher == Build \/ StartNew \/ CheckRunning \/ Loop_test \/ Loop_sleep

Exits == \E h \in DOMAIN children, c \in ExitCodes : ChildExit(h, c)

Next == Launcher \/ Exits

\* A host at UTC+8 whose sleeps last exactly as long as asked and whose
\* children may all exit.
PlainEnv ==
    [tz |-> 8, horizon |-> ShortHorizon, pace |-> {PaceSeconds}, nap |-> {PollSeconds},
     hung |-> {}]

StartOfRun == Instant(0, 7, 3, 9, 0, 0)

\* paralledExperiments.py under every small configuration.
ParalledInit ==
    InitWith("paralledExperiments", 0 .. MaxParalleledNum, 0 .. MaxIteration,
             SeqsUpTo(Triples, MaxFileNames), {PlainEnv}, {StartOfRun})

\* oneExperiment.py as it is configured.
OneInit ==
    InitWith("oneExperiment", {ParalleledNum_one}, {Iteration_one}, {FileNames_one},
             {[PlainEnv EXCEPT !.nap = {PollSeconds_one}]}, {StartOfRun})

Init == ParalledInit \/ OneInit

Spec == Init /\ [][Next]_vars

\* Hosts on which no child hangs, or the first, or the second, ... does.
HungEnvs == { [PlainEnv EXCEPT !.hung = H] : H \in {{}} \cup { {h} : h \in 1 .. MaxParalleledNum } }

\* Lists of one triple repeated.
Repeated(t) == { [k \in 1 .. n |-> t] : n \in 0 .. MaxFileNames }

LiveInit ==
    InitWith("paralledExperiments", 0 .. MaxParalleledNum, 0 .. MaxIteration,
             Repeated(<<Sv5r10, <<"JOSi1000o500">>, <<"SAIn">> >>), HungEnvs, {StartOfRun})

\* The launcher is one thread that always takes its next step (a sleep
\* returns); a child that does not hang exits in the end.
Fairness ==
    /\ WF_vars(Launcher)
    /\ \A h \in 1 .. MaxQueue : WF_vars(\E c \in ExitCodes : ChildExit(h, c))

LiveSpec == LiveInit /\ [][Next]_vars /\ Fairness

\* The shortest time after which "%m%d%H%M%S" can read the same again.
WrapPeriod == 365 * SecondsPerDay

\* The UTC offsets of the hosts.
HostOffsets == {-5, 0, 8}

\* Hosts followed for a poll, whose sleeps last as asked or a second more;
\* and hosts followed for two years, whose sleeps may last about a year.
SeedEnvs ==
    { [tz |-> z, horizon |-> PollSeconds + 5,
       pace |-> {PaceSeconds, PaceSeconds + 1},
       nap |-> {PollSeconds}, hung |-> {}] : z \in HostOffsets }
    \cup
    { [tz |-> z, horizon |-> 2 * WrapPeriod,
       pace |-> {PaceSeconds, WrapPeriod - 1, WrapPeriod},
       nap |-> {WrapPeriod - 2}, hung |-> {}] : z \in HostOffsets }

\* Starts a second before the end of a minute, of the year (at UTC+8), of
\* February 28th in a leap year and in a common year (at UTC).
SeedStarts ==
    { Instant(0, 7, 3, 9, 0, 59), Instant(0, 12, 31, 15, 59, 59),
      Instant(0, 2, 28, 23, 59, 59), Instant(1, 2, 28, 23, 59, 59) }

\* Every job is built from the same triple.
SeedInit ==
    InitWith("paralledExperiments", 1 .. MaxParalleledNum, {MaxIteration},
             { << <<Sv5r10, <<"JOSi1000o500">>, <<"SAIn">> >> >> }, SeedEnvs, SeedStarts)

SeedSpec == SeedInit /\ [][Next]_vars

\* Hand-written lists of triples, as the commented-out lines 28-31 give:
\* two bot counts of one layout, a layout named without a bot count, and
\* layouts of the folder SquareLayouts named after it, with and without one.
Sv5r60 == InstanceName(<<"S">>, <<"5">>, <<"6", "0">>)

Sv5 == <<"S", "v", "5">>

Square == <<"S", "q", "u", "a", "r", "e">>

Squarer10 == Square \o <<"r", "1", "0">>

DirTriples ==
    { <<name, <<"JOSi1000o500">>, <<"SAIn">> >> : name \in {Sv5r10, Sv5r60, Sv5, Square, Squarer10} }

DirInit ==
    InitWith("paralledExperiments", {1}, {1}, SeqsUpTo(DirTriples, MaxFileNames),
             {PlainEnv}, {StartOfRun})

DirSpec == DirInit /\ [][Next]_vars

\* ------------------------------------------------------- the claims
Range(s) == { s[k] : k \in DOMAIN s }

ReapedHandles == { reaped[k].handle : k \in DOMAIN reaped }

\* The job (0-based queue position) each Popen call so far was given.
SpawnedJobs == [k \in DOMAIN spawned |-> spawned[k].job]

\* C1: in every state of the launcher, between any two of its steps, the
\* Active Process Set holds at most ParalleledNum handles.
C1_ActiveWithinLimit == Len(Processes) <= ParalleledNum

\* The set is full, with jobs still queued, while the launcher sleeps.
C1_Witness ==
    /\ pc = "nap"
    /\ ParalleledNum = 2
    /\ Len(Processes) = ParalleledNum
    /\ NextURLNo < Len(cmds)

\* C3: the k-th process spawned runs the k-th job of the queue, with the
\* list the queue holds for it, whatever the order of the exits; and with
\* limit 2 and four jobs, the refill after A alone was reaped leaves
\* exactly B and C active.
C3_QueueOrder ==
    /\ \A k \in DOMAIN spawned : spawned[k].job = k - 1 /\ spawned[k].args = cmds[k]
    /\ \A a, b \in DOMAIN Processes : a < b => Processes[a] < Processes[b]
    /\ (/\ ParalleledNum = 2
        /\ Len(cmds) = 4
        /\ pc = "loop"
        /\ reaped # <<>>
        /\ ReapedHandles = {1})
       => Processes = <<2, 3>> /\ NextURLNo = 3

\* A exited before B and the refill has returned.
C3_Witness ==
    /\ ParalleledNum = 2
    /\ Len(cmds) = 4
    /\ pc = "loop"
    /\ ReapedHandles = {1}
    /\ Processes = <<2, 3>>
    /\ SpawnedJobs = <<0, 1, 2>>

\* C4: no job is spawned twice, whatever the exit codes and however many
\* polls follow; there are never more spawns than jobs.
C4_NoRetry ==
    /\ \A a, b \in DOMAIN spawned : a # b => spawned[a].job # spawned[b].job
    /\ Len(spawned) <= Len(cmds)

\* The run is over, every job was spawned, and a child had failed.
C4_Witness ==
    /\ pc = "done"
    /\ Len(cmds) >= 2
    /\ Len(spawned) = Len(cmds)
    /\ \E k \in DOMAIN reaped : reaped[k].returncode = <<1>>

\* What poll() would have returned had the child succeeded.
AsSuccess(returncode) == IF returncode = None THEN None ELSE <<0>>

\* C5: a turn of the reap loop does to the launcher exactly what it would
\* have done had the polled child exited with 0: a failed child is deleted
\* like a successful one, and the step moves no cursor, spawns and prints
\* nothing.
C5_ExitCodeIgnored ==
    [][(pc = "reap" /\ p' # p)
        => /\ Position(p) # 0
           /\ LET h == Processes[Position(p)]
              IN  /\ Processes' = (IF AsSuccess(Poll(h)) # None
                                   THEN DelAt(Processes, Position(p)) ELSE Processes)
                  /\ (Poll(h) # None => h \notin Range(Processes'))
           /\ UNCHANGED <<NextURLNo, cmds, spawned, stdout>>]_vars

\* A failed child was reaped and a job was spawned into its slot.
C5_Witness ==
    /\ reaped # <<>>
    /\ reaped[1].returncode = <<1>>
    /\ Len(spawned) > ParalleledNum
    /\ ParalleledNum >= 1

\* Every job was dispatched and every child that was spawned has exited.
AllDispatchedAndExited ==
    /\ pc # "build"
    /\ NextURLNo = Len(cmds)
    /\ \A h \in DOMAIN children : children[h] # None

\* Every job was dispatched and the exit of every child was observed.
AllDone ==
    /\ NextURLNo = Len(cmds)
    /\ Len(spawned) = Len(cmds)
    /\ Processes = <<>>
    /\ children = <<>>
    /\ ReapedHandles = 1 .. Len(spawned)

\* C2, as claimed: whenever the driving loop has ended, every job was
\* dispatched and every process has exited, whatever the limit.
C2_Original == pc = "done" => AllDone

\* C2, amended: the loop ends only when every process spawned has exited and,
\* for a limit of 1 or more, every job was dispatched; once every job was
\* dispatched and every child has exited, it ends; and when no child hangs,
\* it ends.
C2_Termination ==
    /\ [](pc = "done" => IF ParalleledNum >= 1 THEN AllDone
                         ELSE spawned = <<>> /\ Processes = <<>>)
    /\ [](AllDispatchedAndExited => <>(pc = "done"))
    /\ (env.hung = {} => <>(pc = "done"))

\* The loop has ended after four jobs under a limit of 1 or more.
C2_Witness ==
    /\ pc = "done"
    /\ ParalleledNum >= 1
    /\ Len(cmds) = 4
    /\ Len(reaped) = 4

\* C6: once built, cmds has Iteration * len(FileNames) entries and entry k
\* (from 0) is the job of triple k mod T, appended in iteration k div T.
C6_QueueBuilt ==
    pc # "build" =>
        LET T == Len(FileNames)
        IN  /\ Len(cmds) = Iteration * T
            /\ Len(origin) = Len(cmds)
            /\ \A k \in 0 .. Len(cmds) - 1 :
                  /\ SubSeq(cmds[k + 1], 1, 6) = Job(script, FileNames[(k % T) + 1])
                  /\ origin[k + 1] = [iteration |-> k \div T, position |-> k % T]

\* Two iterations over two different triples have just been enumerated.
C6_Witness ==
    /\ pc = "call"
    /\ spawned = <<>>
    /\ Iteration = 2
    /\ Len(FileNames) = 2
    /\ FileNames[1] # FileNames[2]
    /\ Len(cmds) = 4
    /\ cmds[1] = cmds[3]
    /\ cmds[1] # cmds[2]

\* C7: a handle deleted from Processes is referenced no more: it is never
\* in Processes again, never polled again, never deleted again.
C7_NoDoubleCount ==
    [][/\ \A h \in ReapedHandles : h \notin Range(Processes') /\ h \notin DOMAIN children'
       /\ (polls' # polls /\ polls' # <<>>) => Last(polls') \notin ReapedHandles
       /\ reaped' # reaped =>
             /\ Front(reaped') = reaped
             /\ Last(reaped').handle \notin ReapedHandles]_vars

\* A later call of CheckRunning has polled the handles left after a reap.
C7_Witness ==
    /\ pc = "loop"
    /\ reaped # <<>>
    /\ polls # <<>>
    /\ Range(polls) \cap ReapedHandles = {}
    /\ Len(spawned) = Len(cmds)

\* C8: a child that never exits keeps its handle in Processes from then on
\* and is never seen as exited, so the driving loop never ends; with a limit
\* of 2 or more every job is spawned all the same once the other children
\* exit, with a limit of 1 none is spawned after it.
C8_HungChild ==
    /\ [][\A h \in env.hung : h \in Range(Processes) => h \in Range(Processes')]_vars
    /\ [](\A h \in env.hung : h <= Len(spawned) =>
              /\ pc # "done"
              /\ h \in DOMAIN children
              /\ children[h] = None
              /\ (ParalleledNum = 1 => Len(spawned) = h))
    /\ (ParalleledNum >= 2 => <>(pc # "build" /\ Len(spawned) = Len(cmds)))

\* The first child hangs; the three other jobs went through the other slot.
C8_Witness ==
    /\ env.hung = {1}
    /\ ParalleledNum = 2
    /\ Len(cmds) = 4
    /\ Len(spawned) = 4
    /\ Len(reaped) = 3
    /\ Processes = <<1>>

\* The jobs whose process was spawned, as 1-based positions of cmds.
Dispatched == 1 .. Len(spawned)

\* C9: a queued job has no seed (executable, 'run' and four paths); StartNew
\* appends the seed of the moment before it spawns the process with the
\* list; from then on the list is the one the process was given, ending in
\* that one seed.
C9_SeedAtDispatch ==
    pc # "build" =>
        \A k \in DOMAIN cmds :
            LET job == Job(script, FileNames[((k - 1) % Len(FileNames)) + 1])
            IN  /\ k \in Dispatched =>
                      /\ cmds[k] = Append(job, SeedAt(spawned[k].at, env.tz))
                      /\ spawned[k].args = cmds[k]
                /\ (k \notin Dispatched /\ ~(pc = "popen" /\ k = NextURLNo + 1)) =>
                      cmds[k] = job
                /\ (pc = "popen" /\ k = NextURLNo + 1) =>
                      cmds[k] = Append(job, SeedAt(clock, env.tz))

\* One job runs with its seed, the next has its seed and is about to be
\* spawned, a third is queued.
C9_Witness ==
    /\ pc = "popen"
    /\ Len(spawned) = 1
    /\ Len(cmds[1]) = 7
    /\ Len(cmds[2]) = 7
    /\ Len(cmds) >= 3
    /\ Len(cmds[3]) = 6

\* The seed the k-th process was given.
SeedOf(k) == Last(spawned[k].args)

ReadingAt(utc, hours) == Strftime([local |-> utc + hours * 3600, tzinfo |-> <<hours>>])

\* C11: the seed of every dispatch is the month, day, hour, minute and
\* second of the instant of the dispatch read at UTC+8, whatever the UTC
\* offset of the host; so hosts with different offsets give one instant the
\* same seed.
C11_SeedAtUtc8 ==
    \A k \in DOMAIN spawned : SeedOf(k) = ReadingAt(spawned[k].at, SeedTzHours)

\* The decimal digits a bot count is written with.
Digits == Range(DigitChars)

\* How many digits s ends with.
RECURSIVE TrailingDigits(_)
TrailingDigits(s) ==
    IF Len(s) = 0 \/ Last(s) \notin Digits THEN 0 ELSE TrailingDigits(Front(s)) + 1

\* s without a trailing "r<digits>", all of s when it does not end so.
StripBotCount(s) ==
    LET d == TrailingDigits(s)
    IN  IF d >= 1 /\ Len(s) > d /\ s[Len(s) - d] = "r"
        THEN SubSeq(s, 1, Len(s) - d - 1)
        ELSE s

\* The instance name the k-th job was built from, and its output directory.
InstanceOf(k) == FileNames[origin[k].position + 1][1]

OutputDirOf(k) == cmds[k][6]

\* C12: in paralledExperiments.py the output directory of a job is the
\* experiment folder joined with the instance name without its trailing
\* "r<digits>" (the whole name when it has none), so "Sv5r60" gives "Sv5";
\* and two jobs share an output directory exactly when their instance names
\* are bot-count variants of one base name.
C12_OutputDirStripsBotCount ==
    script = "paralledExperiments" =>
        /\ \A k \in DOMAIN cmds :
               OutputDirOf(k) = experimentFolder \o <<"\\">> \o StripBotCount(InstanceOf(k))
        /\ \A a, b \in DOMAIN cmds :
               (OutputDirOf(a) = OutputDirOf(b))
                   <=> (StripBotCount(InstanceOf(a)) = StripBotCount(InstanceOf(b)))

\* C13: within one CheckRunning call the entries of Processes are polled
\* newest first: the j-th poll of the call is of the j-th entry from the end
\* of the list the call found.
C13_NewestFirst ==
    \A j \in DOMAIN polls :
        /\ j <= Len(entries)
        /\ polls[j] = entries[Len(entries) - j + 1]

\* The handles this CheckRunning call has polled and found exited.
FoundExited == { polls[j] : j \in { x \in DOMAIN polls : results[x] # None } }

\* The list the call found, without them.
Survivors ==
    LET Stays(h) == h \notin FoundExited
    IN  SelectSeq(entries, Stays)

\* C14: the reap loop never indexes out of range; it polls every entry the
\* call found exactly once, skipping none; it removes exactly the entries
\* whose poll reported an exit, and the others keep their order.
C14_ReapPassComplete ==
    /\ pc # "IndexError"
    /\ Len(results) = Len(polls)
    /\ Range(polls) \subseteq Range(entries)
    /\ \A a, b \in DOMAIN polls : a # b => polls[a] # polls[b]
    /\ pc = "reap" =>
          /\ Len(polls) < Len(entries)
          /\ Processes = Survivors
          /\ Position(p) \in DOMAIN Processes
          /\ Processes[Position(p)] \notin Range(polls)
    /\ pc # "reap" =>
          /\ Len(polls) = Len(entries)
          /\ Len(Processes) >= Len(Survivors)
          /\ SubSeq(Processes, 1, Len(Survivors)) = Survivors
          /\ \A k \in Len(Survivors) + 1 .. Len(Processes) : Processes[k] \notin Range(entries)

\* A pass over two entries is over: the first had exited and was deleted
\* during the loop, the second was polled after that and stays.
C14_Witness ==
    /\ pc = "refill"
    /\ entries = <<1, 2>>
    /\ polls = <<1, 2>>
    /\ results[1] # None
    /\ results[2] = None
    /\ Processes = <<2>>

\* The first CheckRunning call has returned and no later one has started: a
\* later call is made with Processes not empty (line 79), the first with
\* Processes empty (line 49).
FirstCallReturned == pc \in {"loop", "nap", "done"} /\ entries = <<>>

\* C15: when the first CheckRunning call returns, Processes holds the
\* handles of the first min(ParalleledNum, len(cmds)) jobs of the queue, in
\* queue order, and NextURLNo is that minimum, whether or not some of these
\* children have exited meanwhile: the fill does not poll.
C15_InitialFill ==
    FirstCallReturned =>
        LET m == Min(ParalleledNum, Len(cmds))
        IN  /\ NextURLNo = m
            /\ Len(spawned) = m
            /\ reaped = <<>>
            /\ Len(Processes) = m
            /\ \A k \in 1 .. m :
                   /\ Processes[k] = k
                   /\ spawned[k].job = k - 1
                   /\ Front(spawned[k].args) = Job(script, FileNames[origin[k].position + 1])

\* Limit 2, a queue of four: the first call has returned with the first two
\* jobs in Processes, the first of which exited during the fill.
C15_Witness ==
    /\ FirstCallReturned
    /\ pc = "loop"
    /\ ParalleledNum = 2
    /\ Len(cmds) = 4
    /\ Processes = <<1, 2>>
    /\ children[1] # None
    /\ children[2] = None

\* CheckRunning has returned to the driving loop, which tests Processes
\* and sleeps.
CheckRunningReturned == pc \in {"loop", "nap"}

\* C16: whenever CheckRunning returns, Processes is full (ParalleledNum
\* entries) or every job of the queue has been dispatched: no slot stays
\* free over a poll interval while a job is queued.
C16_WorkConserving ==
    CheckRunningReturned => (Len(Processes) = ParalleledNum \/ NextURLNo = Len(cmds))

\* A later call reaped a process and filled its slot with the next job,
\* and jobs are still queued as the driving loop goes to sleep.
C16_Witness ==
    /\ pc = "nap"
    /\ Len(reaped) >= 1
    /\ ParalleledNum = 2
    /\ Len(Processes) = 2
    /\ NextURLNo = 3
    /\ NextURLNo < Len(cmds)

\* The positions of the launcher inside StartNew, and in a sleep.
InStartNew == pc \in {"seed", "popen", "advance", "record"}

InSleep == pc \in {"pace", "nap"}

\* C17: a step of the reap loop removes from Processes at most the entry it
\* polled, and only if that poll reported an exit; it adds nothing and
\* leaves NextURLNo alone.  A StartNew call removes nothing, appends one
\* entry, the process of the job NextURLNo stood at, and adds one to
\* NextURLNo.  A sleep changes neither, and nothing else changes them.
C17_Frame ==
    [][ /\ pc = "reap" =>
              /\ NextURLNo' = NextURLNo
              /\ \/ /\ Processes' = Processes
                    /\ (polls' # polls => Last(results') = None)
                 \/ /\ polls' # polls
                    /\ Last(results') # None
                    /\ Len(Processes') = Len(Processes) - 1
                    /\ Range(Processes') = Range(Processes) \ {Last(polls')}
        /\ InStartNew =>
              /\ pc \in {"seed", "popen"} => proc = 0
              /\ pc = "advance" => (proc = Len(spawned) /\ spawned[proc].job = NextURLNo)
              /\ pc = "record" => (proc = Len(spawned) /\ spawned[proc].job = NextURLNo - 1)
              /\ Processes' = IF pc = "record" /\ pc' = "refill"
                              THEN Append(Processes, proc) ELSE Processes
              /\ NextURLNo' = IF pc = "advance" /\ pc' = "record"
                              THEN NextURLNo + 1 ELSE NextURLNo
              /\ pc = "record" => proc \notin Range(Processes)
        /\ InSleep => (Processes' = Processes /\ NextURLNo' = NextURLNo)
        /\ (pc # "reap" /\ ~InStartNew) => (Processes' = Processes /\ NextURLNo' = NextURLNo)
      ]_vars

\* A later CheckRunning call found two processes, reaped one, StartNew put
\* the third job next to the one that stayed, and the driving loop slept.
C17_Witness ==
    /\ pc = "call"
    /\ Len(entries) = 2
    /\ Len(reaped) = 1
    /\ Processes \in { <<1, 3>>, <<2, 3>> }
    /\ NextURLNo = 3

\* The process StartNew has spawned (line 59) and not yet counted (line 61),
\* or counted and not yet put into Processes (line 62).
Uncounted == IF pc = "advance" THEN 1 ELSE 0

Unrecorded == IF pc \in {"advance", "record"} THEN 1 ELSE 0

\* C18: StartNew is called only while a job is left: NextURLNo stays within
\* 0 .. len(cmds) and never decreases, cmds[NextURLNo] in StartNew is never
\* out of range, and NextURLNo is the number of processes spawned so far,
\* which is len(Processes) plus the number of handles reaped (within
\* StartNew, counting the process between its Popen and lines 61 and 62).
C18_CursorInRange ==
    /\ [] /\ pc # "IndexError"
          /\ NextURLNo \in 0 .. Len(cmds)
          /\ pc \in {"pace", "seed", "popen"} => NextURLNo < Len(cmds)
          /\ Len(spawned) = NextURLNo + Uncounted
          /\ Len(spawned) = Len(Processes) + Len(reaped) + Unrecorded
          /\ ~InStartNew => /\ NextURLNo = Len(spawned)
                            /\ NextURLNo = Len(Processes) + Len(reaped)
    /\ [][NextURLNo' >= NextURLNo]_vars

\* StartNew is called for the last job of the queue, after a reap.
C18_Witness ==
    /\ pc = "seed"
    /\ Len(reaped) >= 1
    /\ Len(cmds) >= 2
    /\ NextURLNo = Len(cmds) - 1

\* The driving loop ends at once: the queue is empty, or the limit is 0.
C18_WitnessNothingToDo ==
    /\ pc = "done"
    /\ spawned = <<>>
    /\ Len(cmds) = 0 \/ ParalleledNum = 0

\* C19: the message printed at the k-th dispatch says "k" of len(cmds), and
\* the triple it names is the triple of FileNames the job spawned was built
\* from, whatever Iteration >= 1 and len(FileNames) >= 1 (oneExperiment.py
\* prints the triple without the numbers).
C19_ProgressMessage ==
    /\ Len(stdout) = Len(spawned)
    /\ \A k \in DOMAIN stdout :
          /\ script = "paralledExperiments" =>
                (stdout[k].no = k /\ stdout[k].total = Len(cmds))
          /\ stdout[k].triple = FileNames[origin[k].position + 1]
          /\ Front(spawned[k].args) = Job(script, stdout[k].triple)
          /\ spawned[k].job = k - 1

\* Two triples, two iterations: the third dispatch is of the second
\* iteration and names the first triple again.
C19_Witness ==
    /\ script = "paralledExperiments"
    /\ Iteration = 2
    /\ Len(FileNames) = 2
    /\ FileNames[1] # FileNames[2]
    /\ Len(stdout) >= 3
    /\ stdout[3] = [no |-> 3, total |-> 4, triple |-> FileNames[1]]
    /\ origin[3] = [iteration |-> 1, position |-> 0]

\* The children spawned and not yet seen to have exited by a poll.
Unreaped == { h \in 1 .. Len(spawned) : h \notin ReapedHandles }

\* C20: oneExperiment.py (limit 1, two iterations, one output directory
\* for all jobs) runs its jobs one after the other: a job is spawned only
\* after a poll has returned the exit code of the one before, so Processes
\* never holds two children writing to the directory.
C20_Sequential ==
    script = "oneExperiment" =>
        /\ ParalleledNum = ParalleledNum_one /\ Iteration = Iteration_one
        /\ \A k \in DOMAIN cmds : OutputDirOf(k) = experimentFolder_one
        /\ Len(Processes) <= 1
        /\ Cardinality(Unreaped) <= 1
        /\ \A k \in DOMAIN spawned :
               k >= 2 => /\ Len(reaped) >= k - 1
                         /\ reaped[k - 1].handle = k - 1
                         /\ reaped[k - 1].returncode # None

\* The second job runs alone: the first was polled after its exit and
\* deleted before the second was spawned.
C20_Witness ==
    /\ script = "oneExperiment"
    /\ Len(spawned) = 2
    /\ Len(reaped) = 1
    /\ reaped[1].handle = 1
    /\ Processes = <<2>>
    /\ children[2] = None
    /\ OutputDirOf(1) = OutputDirOf(2)

====
